---- MODULE Spec2Model ----
(***************************************************************************)
(* Model of src/gestion_tareas.py: class GestorTareas, a priority task     *)
(* manager keeping a heapq list (self.heap), a set of completed names      *)
(* (self.tareas_completadas) and a JSON snapshot file.                     *)
(*                                                                         *)
(* A task is the 4-element Python sequence (prioridad, fecha, nombre,      *)
(* dependencias).  añadir_tarea and completar_tarea build it as a tuple,   *)
(* json.load returns it as a list; Python orders tuples among themselves   *)
(* and lists among themselves, and raises TypeError for tuple < list.  The *)
(* field "tipo" records which of the two a task is.                        *)
(***************************************************************************)
EXTENDS Integers, Sequences, FiniteSets, TLC

\* ---------------------------------------------------------------- bounds
\* largest number of tasks the heap is allowed to hold in the model
MaxTareas == 2
\* the same in the wider specification, where a heappop leaves two tasks to
\* compare
MaxTareasAmplio == 3

\* ---------------------------------------------------------------- inputs
\* an argument list of añadir_tarea; int |-> FALSE stands for a prioridad such
\* as 1.5 that is not an instance of int
Entrada(nombre, es_int, v, fecha_vencimiento, dependencias) ==
    [nombre |-> nombre, prioridad |-> [int |-> es_int, v |-> v],
     fecha_vencimiento |-> fecha_vencimiento, dependencias |-> dependencias]

NombresEntrada == {"A", "B"}
PrioridadesEntrada == {1, 2}
FechasEntrada == {"2025-05-01", "2025-6-1"}
DependenciasEntrada == {<<>>, <<"A">>}

\* argument lists that pass the checks of añadir_tarea; no task is given
\* itself as a dependency
EntradasValidas ==
    {e \in {Entrada(n, TRUE, p, f, d) :
                n \in NombresEntrada, p \in PrioridadesEntrada,
                f \in FechasEntrada, d \in DependenciasEntrada} :
        \A i \in 1..Len(e.dependencias) : e.dependencias[i] # e.nombre}

\* argument lists with a blank name, a prioridad that is no int, a date that
\* does not parse, and two of these at once
EntradasInvalidas ==
    {Entrada(" ", TRUE, 1, "2025-05-01", <<>>),
     Entrada("A", FALSE, 1, "2025-05-01", <<>>),
     Entrada("A", TRUE, 1, "not-a-date", <<"A">>),
     Entrada(" ", TRUE, 2, "not-a-date", <<>>),
     Entrada("B", FALSE, 1, "not-a-date", <<>>)}

\* the names completar_tarea is called with
NombresCompletar == {"A", "B"}

\* ------------------------------------------------- library conversions
\* str.strip() on the names of NombresEntrada
strip(s) == IF s \in {"", " "} THEN "" ELSE s

\* datetime.strptime(s, "%Y-%m-%d") succeeds (it accepts unpadded fields)
fecha_valida(s) == s \in {"2025-05-01", "2025-6-1", "2025-06-01"}

\* datetime.strptime(s, "%Y-%m-%d").isoformat()
strptime_isoformat(s) ==
    CASE s = "2025-05-01" -> "2025-05-01T00:00:00"
      [] s = "2025-6-1"   -> "2025-06-01T00:00:00"
      [] s = "2025-06-01" -> "2025-06-01T00:00:00"

\* Python orders str by code points; rank of the strings that get compared
str_rank(s) ==
    CASE s = "2025-05-01T00:00:00" -> 1
      [] s = "2025-06-01T00:00:00" -> 2
      [] s = "A" -> 3
      [] s = "B" -> 4

str_lt(a, b) == str_rank(a) < str_rank(b)

\* list < list of str: first differing position decides, else the shorter
RECURSIVE lista_lt(_, _)
lista_lt(a, b) ==
    IF a = <<>> THEN b # <<>>
    ELSE IF b = <<>> THEN FALSE
    ELSE IF Head(a) # Head(b) THEN str_lt(Head(a), Head(b))
    ELSE lista_lt(Tail(a), Tail(b))

\* a < b raises TypeError when one is a tuple and the other a list
comparable(a, b) == a.tipo = b.tipo

\* a < b for two tasks of the same Python type (lexicographic on the fields)
tarea_lt(a, b) ==
    IF a.prioridad # b.prioridad THEN a.prioridad < b.prioridad
    ELSE IF a.fecha # b.fecha THEN str_lt(a.fecha, b.fecha)
    ELSE IF a.nombre # b.nombre THEN str_lt(a.nombre, b.nombre)
    ELSE lista_lt(a.dependencias, b.dependencias)

\* the JSON array json.dump writes for a task: tuple and list look the same
json_de(t) ==
    [prioridad |-> t.prioridad, fecha |-> t.fecha, nombre |-> t.nombre,
     dependencias |-> t.dependencias]

\* json.dump(self.heap, archivo)
json_dump(h) == [i \in 1..Len(h) |-> json_de(h[i])]

\* json.load(archivo): every array comes back as a list
json_load(c) ==
    [i \in 1..Len(c) |->
        [prioridad |-> c[i].prioridad, fecha |-> c[i].fecha,
         nombre |-> c[i].nombre, dependencias |-> c[i].dependencias,
         tipo |-> "list"]]

\* ----------------------------------------------------------------- heapq
\* positions are 0-based as in Python
at(h, pos) == h[pos + 1]
swap(h, i, j) == [h EXCEPT ![i + 1] = h[j + 1], ![j + 1] = h[i + 1]]

\* _heapq siftdown(heap, startpos, pos): err when a comparison raises
RECURSIVE siftdown(_, _, _)
siftdown(h, startpos, pos) ==
    IF pos > startpos
    THEN LET parentpos == (pos - 1) \div 2
         IN  IF ~comparable(at(h, pos), at(h, parentpos))
             THEN [h |-> h, err |-> TRUE]
             ELSE IF tarea_lt(at(h, pos), at(h, parentpos))
                  THEN siftdown(swap(h, pos, parentpos), startpos, parentpos)
                  ELSE [h |-> h, err |-> FALSE]
    ELSE [h |-> h, err |-> FALSE]

\* _heapq siftup(heap, pos): moves the smaller child up, then siftdown
RECURSIVE siftup_bucle(_, _, _)
siftup_bucle(h, startpos, pos) ==
    IF pos < Len(h) \div 2
    THEN LET left == 2 * pos + 1
         IN  IF left + 1 < Len(h)
             THEN IF ~comparable(at(h, left), at(h, left + 1))
                  THEN [h |-> h, err |-> TRUE]
                  ELSE LET childpos == IF tarea_lt(at(h, left), at(h, left + 1))
                                       THEN left ELSE left + 1
                       IN  siftup_bucle(swap(h, pos, childpos), startpos, childpos)
             ELSE siftup_bucle(swap(h, pos, left), startpos, left)
    ELSE siftdown(h, startpos, pos)

siftup(h, pos) == siftup_bucle(h, pos, pos)

\* heapq.heappush(heap, item)
heappush(h, item) == siftdown(Append(h, item), 0, Len(h))

\* heapq.heappop(heap) on a non-empty heap; on err the top item is already
\* overwritten by the last one
heappop(h) ==
    LET n == Len(h)
        lastelt == h[n]
        resto == SubSeq(h, 1, n - 1)
    IN  IF n = 1
        THEN [h |-> <<>>, item |-> lastelt, err |-> FALSE]
        ELSE LET r == siftup([resto EXCEPT ![1] = lastelt], 0)
             IN  [h |-> r.h, item |-> h[1], err |-> r.err]

\* heapq.heapify(heap): siftup at n/2-1, ..., 0
RECURSIVE heapify_bucle(_, _)
heapify_bucle(h, i) ==
    IF i < 0 THEN [h |-> h, err |-> FALSE]
    ELSE LET r == siftup(h, i)
         IN  IF r.err THEN r ELSE heapify_bucle(r.h, i - 1)

heapify(h) == heapify_bucle(h, Len(h) \div 2 - 1)

\* ------------------------------------------------------------ merge sort
\* mezclar(izquierda, derecha): compares (prioridad, fecha) only
clave_le(a, b) ==
    IF a.prioridad # b.prioridad THEN a.prioridad < b.prioridad
    ELSE a.fecha = b.fecha \/ str_lt(a.fecha, b.fecha)

\* mezclar comparing the priorities alone
RECURSIVE mezclar_solo_prioridad(_, _)
mezclar_solo_prioridad(izquierda, derecha) ==
    IF izquierda # <<>> /\ derecha # <<>>
    THEN IF Head(izquierda).prioridad <= Head(derecha).prioridad
         THEN <<Head(izquierda)>>
              \o mezclar_solo_prioridad(Tail(izquierda), derecha)
         ELSE <<Head(derecha)>>
              \o mezclar_solo_prioridad(izquierda, Tail(derecha))
    ELSE IF izquierda # <<>> THEN izquierda ELSE derecha

\* mezclar taking the left task only when its key is strictly smaller
RECURSIVE mezclar_estricto(_, _)
mezclar_estricto(izquierda, derecha) ==
    IF izquierda # <<>> /\ derecha # <<>>
    THEN IF ~clave_le(Head(derecha), Head(izquierda))
         THEN <<Head(izquierda)>> \o mezclar_estricto(Tail(izquierda), derecha)
         ELSE <<Head(derecha)>> \o mezclar_estricto(izquierda, Tail(derecha))
    ELSE IF izquierda # <<>> THEN izquierda ELSE derecha

RECURSIVE mezclar(_, _)
mezclar(izquierda, derecha) ==
    IF izquierda # <<>> /\ derecha # <<>>
    THEN IF clave_le(Head(izquierda), Head(derecha))
         THEN <<Head(izquierda)>> \o mezclar(Tail(izquierda), derecha)
         ELSE <<Head(derecha)>> \o mezclar(izquierda, Tail(derecha))
    ELSE IF izquierda # <<>> THEN izquierda ELSE derecha

RECURSIVE merge_sort(_)
merge_sort(lista) ==
    IF Len(lista) <= 1 THEN lista
    ELSE LET mitad == Len(lista) \div 2
         IN  mezclar(merge_sort(SubSeq(lista, 1, mitad)),
                     merge_sort(SubSeq(lista, mitad + 1, Len(lista))))

\* ------------------------------------------------------------ GestorTareas
VARIABLES
    heap,                \* self.heap
    tareas_completadas,  \* self.tareas_completadas
    archivo,             \* the file self.archivo_persistencia
    llamada,             \* the last method called and what it was called with
    resultado,           \* how that call ended
    salida,              \* the tasks that call printed
    insertadas,          \* history, kept while .seguido: the names in the
                         \* order añadir_tarea put them in the heap; given up
                         \* once a name is added a second time
    descartada           \* history, kept while .activa: the task that
                         \* obtener_tarea_mayor_prioridad popped last, until
                         \* it is added again

vars == <<heap, tareas_completadas, archivo, llamada, resultado, salida,
          insertadas, descartada>>

\* guardar_tareas: open(..., "w") creates or truncates, json.dump writes
guardar_tareas(h) == [existe |-> TRUE, contenido |-> json_dump(h)]

\* cargar_tareas: the heap a new GestorTareas starts with
cargar_tareas(f) ==
    IF f.existe THEN heapify(json_load(f.contenido)).h ELSE <<>>

\* the tuple añadir_tarea builds
tarea_de(nombre, prioridad, fecha_vencimiento, dependencias) ==
    [prioridad |-> prioridad.v, fecha |-> strptime_isoformat(fecha_vencimiento),
     nombre |-> nombre, dependencias |-> dependencias, tipo |-> "tuple"]

\* añadir_tarea checking the prioridad only after the push
anadir_tarea_valida_despues(h, nombre, prioridad, fecha_vencimiento, dependencias) ==
    IF strip(nombre) = ""
    THEN [heap |-> h, exc |-> "ValueError nombre", guardado |-> FALSE]
    ELSE IF ~fecha_valida(fecha_vencimiento)
    THEN [heap |-> h, exc |-> "ValueError fecha", guardado |-> FALSE]
    ELSE LET r == heappush(h, tarea_de(nombre, prioridad, fecha_vencimiento,
                                       dependencias))
         IN  IF r.err
             THEN [heap |-> r.h, exc |-> "TypeError", guardado |-> FALSE]
             ELSE IF ~prioridad.int
             THEN [heap |-> r.h, exc |-> "ValueError prioridad",
                   guardado |-> FALSE]
             ELSE [heap |-> r.h, exc |-> "None", guardado |-> TRUE]

\* añadir_tarea: the heap it leaves, the exception it raises, whether
\* guardar_tareas was reached
anadir_tarea(h, nombre, prioridad, fecha_vencimiento, dependencias) ==
    IF strip(nombre) = ""
    THEN [heap |-> h, exc |-> "ValueError nombre", guardado |-> FALSE]
    ELSE IF ~prioridad.int
    THEN [heap |-> h, exc |-> "ValueError prioridad", guardado |-> FALSE]
    ELSE IF ~fecha_valida(fecha_vencimiento)
    THEN [heap |-> h, exc |-> "ValueError fecha", guardado |-> FALSE]
    ELSE LET r == heappush(h, tarea_de(nombre, prioridad, fecha_vencimiento,
                                       dependencias))
         IN  IF r.err
             THEN [heap |-> r.h, exc |-> "TypeError", guardado |-> FALSE]
             ELSE [heap |-> r.h, exc |-> "None", guardado |-> TRUE]

\* completar_tarea: the while loop popping every task, then the rebuild
RECURSIVE completar_bucle(_, _, _, _, _)
completar_bucle(h, nombre, tarea_encontrada, completadas, nuevas_tareas) ==
    IF h = <<>>
    THEN [heap |-> heapify(nuevas_tareas).h, completadas |-> completadas,
          exc |-> "None", tarea_encontrada |-> tarea_encontrada,
          guardado |-> TRUE]
    ELSE LET p == heappop(h)
         IN  IF p.err
             THEN [heap |-> p.h, completadas |-> completadas,
                   exc |-> "TypeError", tarea_encontrada |-> tarea_encontrada,
                   guardado |-> FALSE]
             ELSE IF p.item.nombre = nombre
             THEN completar_bucle(p.h, nombre, TRUE,
                                  completadas \cup {nombre}, nuevas_tareas)
             ELSE completar_bucle(p.h, nombre, tarea_encontrada, completadas,
                      Append(nuevas_tareas, [p.item EXCEPT !.tipo = "tuple"]))

\* completar_tarea leaving tareas_completadas as it was
completar_tarea_sin_registrar(h, completadas, nombre) ==
    [completar_bucle(h, nombre, FALSE, completadas, <<>>)
        EXCEPT !.completadas = completadas]

\* completar_tarea putting the name in tareas_completadas in any case
completar_tarea_registra_siempre(h, completadas, nombre) ==
    LET r == completar_bucle(h, nombre, FALSE, completadas, <<>>)
    IN  [r EXCEPT !.completadas = r.completadas \cup {nombre}]

completar_tarea(h, completadas, nombre) ==
    completar_bucle(h, nombre, FALSE, completadas, <<>>)

\* the same test skipping the first dependency
dependencias_completadas_desde_segunda(dependencias, completadas) ==
    \A i \in 2..Len(dependencias) : dependencias[i] \in completadas

\* all(dep in self.tareas_completadas for dep in dependencias)
dependencias_completadas(dependencias, completadas) ==
    \A i \in 1..Len(dependencias) : dependencias[i] \in completadas

\* obtener_tarea_mayor_prioridad: pops the top while it has a dependency that
\* is not completed
\* quitadas collects the tasks it popped, in the order it popped them
RECURSIVE obtener_bucle(_, _, _)
obtener_bucle(h, completadas, quitadas) ==
    IF h = <<>>
    THEN [heap |-> h, exc |-> "None", salida |-> <<>>, quitadas |-> quitadas]
    ELSE IF dependencias_completadas(h[1].dependencias, completadas)
    THEN [heap |-> h, exc |-> "None", salida |-> <<h[1]>>,
          quitadas |-> quitadas]
    ELSE LET p == heappop(h)
         IN  IF p.err
             THEN [heap |-> p.h, exc |-> "TypeError", salida |-> <<>>,
                   quitadas |-> Append(quitadas, p.item)]
             ELSE obtener_bucle(p.h, completadas, Append(quitadas, p.item))

obtener_tarea_mayor_prioridad(h, completadas) ==
    obtener_bucle(h, completadas, <<>>)

\* ---------------------------------------------------------------- actions
\* what llamada holds for a call: the method, the name it was given, and for
\* añadir_tarea with arguments that pass validation the task it builds
Llamada(op, nombre, tareas) == [op |-> op, nombre |-> nombre, tarea |-> tareas]

\* GestorTareas() in a directory without tareas.json
Init ==
    /\ heap = <<>>
    /\ tareas_completadas = {}
    /\ archivo = [existe |-> FALSE, contenido |-> <<>>]
    /\ llamada = Llamada("__init__", "", <<>>)
    /\ resultado = "None"
    /\ salida = <<>>
    /\ insertadas = [seguido |-> FALSE, orden |-> <<>>]
    /\ descartada = [activa |-> FALSE, tarea |-> <<>>]

\* the same start, with the insertion order recorded
InitOrden ==
    /\ heap = <<>>
    /\ tareas_completadas = {}
    /\ archivo = [existe |-> FALSE, contenido |-> <<>>]
    /\ llamada = Llamada("__init__", "", <<>>)
    /\ resultado = "None"
    /\ salida = <<>>
    /\ insertadas = [seguido |-> TRUE, orden |-> <<>>]
    /\ descartada = [activa |-> FALSE, tarea |-> <<>>]

\* the same start, with the last popped task recorded
InitDescartes ==
    /\ heap = <<>>
    /\ tareas_completadas = {}
    /\ archivo = [existe |-> FALSE, contenido |-> <<>>]
    /\ llamada = Llamada("__init__", "", <<>>)
    /\ resultado = "None"
    /\ salida = <<>>
    /\ insertadas = [seguido |-> FALSE, orden |-> <<>>]
    /\ descartada = [activa |-> TRUE, tarea |-> <<>>]

\* the insertion order once a task named nombre has entered the heap
insertar_nombre(ins, nombre) ==
    IF ~ins.seguido \/ \E i \in 1..Len(ins.orden) : ins.orden[i] = nombre
    THEN [seguido |-> FALSE, orden |-> <<>>]
    ELSE [seguido |-> TRUE, orden |-> Append(ins.orden, nombre)]

AnadirTarea(nombre, prioridad, fecha_vencimiento, dependencias) ==
    LET r == anadir_tarea(heap, nombre, prioridad, fecha_vencimiento,
                          dependencias)
        valida == strip(nombre) # "" /\ prioridad.int
                  /\ fecha_valida(fecha_vencimiento)
    IN  /\ heap' = r.heap
        /\ archivo' = IF r.guardado THEN guardar_tareas(r.heap) ELSE archivo
        /\ llamada' =
              IF valida
              THEN Llamada("anadir_tarea", nombre,
                           <<json_de(tarea_de(nombre, prioridad,
                                      fecha_vencimiento, dependencias))>>)
              ELSE Llamada("anadir_tarea", "", <<>>)
        /\ resultado' = r.exc
        /\ salida' = <<>>
        /\ insertadas' = IF Len(r.heap) > Len(heap)
                         THEN insertar_nombre(insertadas, nombre)
                         ELSE insertadas
        /\ descartada' =
              IF /\ Len(r.heap) > Len(heap)
                 /\ descartada.tarea =
                       <<json_de(tarea_de(nombre, prioridad, fecha_vencimiento,
                                          dependencias))>>
              THEN [descartada EXCEPT !.tarea = <<>>] ELSE descartada
        /\ UNCHANGED tareas_completadas

MostrarTareasPendientes ==
    /\ llamada' = Llamada("mostrar_tareas_pendientes", "", <<>>)
    /\ resultado' = "None"
    /\ salida' = merge_sort(heap)
    /\ UNCHANGED <<heap, tareas_completadas, archivo, insertadas, descartada>>

CompletarTarea(nombre) ==
    LET r == completar_tarea(heap, tareas_completadas, nombre)
    IN  /\ heap' = r.heap
        /\ tareas_completadas' = r.completadas
        /\ archivo' = IF r.guardado THEN guardar_tareas(r.heap) ELSE archivo
        /\ llamada' = Llamada("completar_tarea", nombre, <<>>)
        /\ resultado' = IF r.exc # "None" THEN r.exc
                        ELSE IF r.tarea_encontrada THEN "completada"
                        ELSE "no encontrada"
        /\ salida' = <<>>
        /\ UNCHANGED <<insertadas, descartada>>

ObtenerTareaMayorPrioridad ==
    LET r == obtener_tarea_mayor_prioridad(heap, tareas_completadas)
    IN  /\ heap' = r.heap
        /\ llamada' = Llamada("obtener_tarea_mayor_prioridad", "", <<>>)
        /\ resultado' = IF r.exc # "None" THEN r.exc
                        ELSE IF r.salida # <<>> THEN "tarea" ELSE "ninguna"
        /\ salida' = r.salida
        /\ descartada' =
              IF descartada.activa /\ r.quitadas # <<>>
              THEN [descartada EXCEPT
                       !.tarea = <<json_de(r.quitadas[Len(r.quitadas)])>>]
              ELSE descartada
        /\ UNCHANGED <<tareas_completadas, archivo, insertadas>>

\* the program is started again: __init__ and cargar_tareas on the same file
Reiniciar ==
    /\ heap' = cargar_tareas(archivo)
    /\ tareas_completadas' = {}
    /\ llamada' = Llamada("__init__", "", <<>>)
    /\ resultado' = "None"
    /\ salida' = <<>>
    /\ UNCHANGED <<archivo, insertadas, descartada>>

Next ==
    \/ \E e \in EntradasValidas \cup EntradasInvalidas :
          /\ Len(heap) < MaxTareas
          /\ AnadirTarea(e.nombre, e.prioridad, e.fecha_vencimiento,
                         e.dependencias)
    \/ MostrarTareasPendientes
    \/ \E nombre \in NombresCompletar : CompletarTarea(nombre)
    \/ ObtenerTareaMayorPrioridad
    \/ Reiniciar

Spec == Init /\ [][Next]_vars

\* the same program with one of the histories recorded
SpecOrden == InitOrden /\ [][Next]_vars
SpecDescartes == InitDescartes /\ [][Next]_vars

\* the same program with a larger heap
NextAmplio ==
    \/ \E e \in EntradasValidas \cup EntradasInvalidas :
          /\ Len(heap) < MaxTareasAmplio
          /\ AnadirTarea(e.nombre, e.prioridad, e.fecha_vencimiento,
                         e.dependencias)
    \/ MostrarTareasPendientes
    \/ \E nombre \in NombresCompletar : CompletarTarea(nombre)
    \/ ObtenerTareaMayorPrioridad
    \/ Reiniciar

SpecAmplio == Init /\ [][NextAmplio]_vars

\* ------------------------------------------------- a save that fails
\* where guardar_tareas can fail: in open(..., "w"), before the file is
\* touched, or in json.dump, after open has truncated the file
LugaresDeFallo == {"open", "dump"}

\* the file after a guardar_tareas that raised: as it was, or cut short; a file
\* cut short holds no JSON document
guardar_tareas_falla(f, lugar) ==
    IF lugar = "open" THEN f
    ELSE [existe |-> TRUE, contenido |-> <<>>, truncado |-> TRUE]

\* json.load raises JSONDecodeError on the file
archivo_truncado(f) == "truncado" \in DOMAIN f

\* añadir_tarea whose guardar_tareas raises OSError
AnadirTareaFalloGuardar(nombre, prioridad, fecha_vencimiento, dependencias, lugar) ==
    LET r == anadir_tarea(heap, nombre, prioridad, fecha_vencimiento,
                          dependencias)
    IN  /\ r.guardado
        /\ heap' = r.heap
        /\ archivo' = guardar_tareas_falla(archivo, lugar)
        /\ llamada' = Llamada("anadir_tarea", nombre,
                              <<json_de(tarea_de(nombre, prioridad,
                                         fecha_vencimiento, dependencias))>>)
        /\ resultado' = "OSError"
        /\ salida' = <<>>
        /\ insertadas' = insertar_nombre(insertadas, nombre)
        /\ descartada' =
              IF descartada.tarea =
                    <<json_de(tarea_de(nombre, prioridad, fecha_vencimiento,
                                       dependencias))>>
              THEN [descartada EXCEPT !.tarea = <<>>] ELSE descartada
        /\ UNCHANGED tareas_completadas

\* completar_tarea whose guardar_tareas raises OSError
CompletarTareaFalloGuardar(nombre, lugar) ==
    LET r == completar_tarea(heap, tareas_completadas, nombre)
    IN  /\ r.guardado
        /\ heap' = r.heap
        /\ tareas_completadas' = r.completadas
        /\ archivo' = guardar_tareas_falla(archivo, lugar)
        /\ llamada' = Llamada("completar_tarea", nombre, <<>>)
        /\ resultado' = "OSError"
        /\ salida' = <<>>
        /\ UNCHANGED <<insertadas, descartada>>

\* the program is started on a file cut short: json.load raises
\* JSONDecodeError, which cargar_tareas does not catch, and no GestorTareas
\* comes to exist
ReiniciarArchivoTruncado ==
    /\ archivo_truncado(archivo)
    /\ heap' = <<>>
    /\ tareas_completadas' = {}
    /\ llamada' = Llamada("__init__", "", <<>>)
    /\ resultado' = "JSONDecodeError"
    /\ salida' = <<>>
    /\ UNCHANGED <<archivo, insertadas, descartada>>

\* a GestorTareas exists: the last start of the program did not fail
arrancado == resultado # "JSONDecodeError"

\* the program with saves that may fail; after a start that failed there is
\* no GestorTareas to call
NextFallo ==
    \/ \E e \in EntradasValidas \cup EntradasInvalidas :
          /\ arrancado
          /\ Len(heap) < MaxTareas
          /\ AnadirTarea(e.nombre, e.prioridad, e.fecha_vencimiento,
                         e.dependencias)
    \/ \E e \in EntradasValidas, lugar \in LugaresDeFallo :
          /\ arrancado
          /\ Len(heap) < MaxTareas
          /\ AnadirTareaFalloGuardar(e.nombre, e.prioridad,
                                     e.fecha_vencimiento, e.dependencias,
                                     lugar)
    \/ arrancado /\ MostrarTareasPendientes
    \/ \E nombre \in NombresCompletar : arrancado /\ CompletarTarea(nombre)
    \/ \E nombre \in NombresCompletar, lugar \in LugaresDeFallo :
          arrancado /\ CompletarTareaFalloGuardar(nombre, lugar)
    \/ arrancado /\ ObtenerTareaMayorPrioridad
    \/ ~archivo_truncado(archivo) /\ Reiniciar
    \/ ReiniciarArchivoTruncado

SpecFallo == Init /\ [][NextFallo]_vars

\* ----------------------------------------------------------------- claims
\* how often r occurs in the sequence s
Cuenta(s, r) == Cardinality({i \in 1..Len(s) : s[i] = r})

\* s and t hold the same elements the same number of times
MismosElementos(s, t) ==
    /\ Len(s) = Len(t)
    /\ \A i \in 1..Len(s) : Cuenta(s, s[i]) = Cuenta(t, s[i])

\* equal (prioridad, fecha)
MismaClave(a, b) == a.prioridad = b.prioridad /\ a.fecha = b.fecha

\* the position of nombre in a sequence of names
Posicion(orden, nombre) == CHOOSE i \in 1..Len(orden) : orden[i] = nombre

ErroresDeValidacion ==
    {"ValueError nombre", "ValueError prioridad", "ValueError fecha"}

\* C1: a task reported by obtener_tarea_mayor_prioridad is the top of the heap
\* and has every one of its dependencies in tareas_completadas
C1_TareaSinDependenciasPendientes ==
    (llamada.op = "obtener_tarea_mayor_prioridad" /\ resultado = "tarea") =>
        /\ Len(salida) = 1
        /\ salida[1] = heap[1]
        /\ \A i \in 1..Len(salida[1].dependencias) :
              salida[1].dependencias[i] \in tareas_completadas

\* a task that has a dependency is reported, its dependency being completed
C1_Testigo ==
    /\ llamada.op = "obtener_tarea_mayor_prioridad"
    /\ resultado = "tarea"
    /\ salida[1].dependencias # <<>>
    /\ Len(heap) > 1

\* C2: after each of the four operations the file holds exactly the tasks of
\* the heap
C2_ArchivoIgualAlHeap ==
    llamada.op \in {"anadir_tarea", "completar_tarea",
                    "obtener_tarea_mayor_prioridad", "mostrar_tareas_pendientes"}
        => MismosElementos(archivo.contenido, json_dump(heap))

\* C3: mostrar_tareas_pendientes prints every task of the heap exactly once,
\* in ascending order of (prioridad, fecha)
C3_ListadoOrdenado ==
    llamada.op = "mostrar_tareas_pendientes" =>
        /\ MismosElementos(salida, heap)
        /\ \A i \in 1..(Len(salida) - 1) :
              \/ salida[i].prioridad < salida[i + 1].prioridad
              \/ /\ salida[i].prioridad = salida[i + 1].prioridad
                 /\ str_rank(salida[i].fecha) <= str_rank(salida[i + 1].fecha)

\* the listing differs from the heap array and orders two tasks of equal
\* prioridad by their dates
C3_Testigo ==
    /\ llamada.op = "mostrar_tareas_pendientes"
    /\ salida # heap
    /\ \E i \in 1..(Len(salida) - 1) :
          /\ salida[i].prioridad = salida[i + 1].prioridad
          /\ salida[i].fecha # salida[i + 1].fecha

\* C4 as amended: in the listing the tasks of equal (prioridad, fecha) keep
\* the relative order they have in the heap array
C4_EmpatesEnOrdenDelHeap ==
    llamada.op = "mostrar_tareas_pendientes" =>
        \A k \in 1..Len(heap) :
            LET igual(t) == MismaClave(t, heap[k])
            IN  SelectSeq(salida, igual) = SelectSeq(heap, igual)

\* two tasks of equal key and different names are listed, and not in the
\* order in which they were added
C4_Testigo ==
    /\ llamada.op = "mostrar_tareas_pendientes"
    /\ insertadas.seguido
    /\ \E i, j \in 1..Len(salida) :
          /\ i < j
          /\ MismaClave(salida[i], salida[j])
          /\ Posicion(insertadas.orden, salida[i].nombre)
                > Posicion(insertadas.orden, salida[j].nombre)

\* C4 as stated: while the names added are distinct, the tasks of equal
\* (prioridad, fecha) are listed in the order in which they were added
C4_EmpatesEnOrdenDeInsercion ==
    (llamada.op = "mostrar_tareas_pendientes" /\ insertadas.seguido) =>
        \A i, j \in 1..Len(salida) :
            (i < j /\ MismaClave(salida[i], salida[j])) =>
                Posicion(insertadas.orden, salida[i].nombre)
                    < Posicion(insertadas.orden, salida[j].nombre)

\* C5: a task popped by obtener_tarea_mayor_prioridad is not in the heap again
\* unless añadir_tarea added it again
C5_DescartadaNoVuelve ==
    descartada.tarea # <<>> =>
        \A i \in 1..Len(heap) : json_de(heap[i]) # descartada.tarea[1]

\* C6: guardar_tareas followed by cargar_tareas in a new GestorTareas gives a
\* heap whose merge_sort lists the same tasks in the same order
C6_IdaYVuelta ==
    json_dump(merge_sort(cargar_tareas(guardar_tareas(heap))))
        = json_dump(merge_sort(heap))

\* C7: completar_tarea of a name that is in the heap reports the completion
\* and puts the name in tareas_completadas; called again with the same name
\* right after, it reports that the name was not found and leaves the tasks of
\* the heap and tareas_completadas as they were
C7_CompletarDosVeces ==
    [][/\ (/\ llamada'.op = "completar_tarea"
           /\ \E i \in 1..Len(heap) : heap[i].nombre = llamada'.nombre)
          => (/\ resultado' = "completada"
              /\ llamada'.nombre \in tareas_completadas')
       /\ (/\ llamada.op = "completar_tarea"
           /\ resultado = "completada"
           /\ llamada'.op = "completar_tarea"
           /\ llamada'.nombre = llamada.nombre)
          => (/\ resultado' = "no encontrada"
              /\ llamada'.nombre \in tareas_completadas'
              /\ tareas_completadas' = tareas_completadas
              /\ MismosElementos(json_dump(heap'), json_dump(heap)))]_vars

\* C8: completar_tarea of a name that is in the heap puts the name in
\* tareas_completadas, removes every task of that name, keeps every other task
\* as often as it was there, and saves the remaining tasks
C8_CompletarEncontrada ==
    [][(/\ llamada'.op = "completar_tarea"
        /\ \E i \in 1..Len(heap) : heap[i].nombre = llamada'.nombre)
       => (/\ llamada'.nombre \in tareas_completadas'
           /\ \A i \in 1..Len(heap') : heap'[i].nombre # llamada'.nombre
           /\ \A i \in 1..Len(heap) :
                 heap[i].nombre # llamada'.nombre =>
                    Cuenta(json_dump(heap'), json_de(heap[i]))
                        = Cuenta(json_dump(heap), json_de(heap[i]))
           /\ archivo'.existe
           /\ archivo'.contenido = json_dump(heap'))]_vars

\* C9: completar_tarea of a name that is not in the heap raises nothing,
\* reports that the name was not found, and leaves tareas_completadas and the
\* tasks of the heap as they were
C9_CompletarNoEncontrada ==
    [][(/\ llamada'.op = "completar_tarea"
        /\ \A i \in 1..Len(heap) : heap[i].nombre # llamada'.nombre)
       => (/\ resultado' = "no encontrada"
           /\ tareas_completadas' = tareas_completadas
           /\ MismosElementos(json_dump(heap'), json_dump(heap)))]_vars

\* C10: an añadir_tarea that raises one of the validation errors leaves the
\* heap, tareas_completadas and the file as they were, and arguments with a
\* blank name, a prioridad that is no int or a bad date raise one of them
C10_RechazoSinCambios ==
    [][/\ (llamada'.op = "anadir_tarea" /\ resultado' \in ErroresDeValidacion)
          => (/\ heap' = heap
              /\ tareas_completadas' = tareas_completadas
              /\ archivo' = archivo)
       /\ \A e \in EntradasInvalidas :
             AnadirTarea(e.nombre, e.prioridad, e.fecha_vencimiento,
                         e.dependencias)
                => resultado' \in ErroresDeValidacion]_vars

\* an añadir_tarea with a date that does not parse was rejected while the
\* heap holds tasks the file does not hold
C10_Testigo ==
    /\ llamada.op = "anadir_tarea"
    /\ resultado = "ValueError fecha"
    /\ heap # <<>>
    /\ archivo.contenido # json_dump(heap)

\* the names of the tasks in the heap
NombresPendientes == {heap[i].nombre : i \in 1..Len(heap)}

\* C11 as stated: no name is at once the name of a task in the heap and in
\* tareas_completadas
C11_PendienteOCompletada ==
    NombresPendientes \cap tareas_completadas = {}

\* C11 as amended: a completar_tarea that reports the completion leaves the
\* name in tareas_completadas and no task of that name in the heap; an
\* añadir_tarea that raises nothing leaves a task of its name in the heap and
\* tareas_completadas as it was, whether or not the name is in it
C11_CompletadaHastaAnadirla ==
    [][/\ (llamada'.op = "completar_tarea" /\ resultado' = "completada")
          => (/\ llamada'.nombre \in tareas_completadas'
              /\ \A i \in 1..Len(heap') : heap'[i].nombre # llamada'.nombre)
       /\ (llamada'.op = "anadir_tarea" /\ resultado' = "None")
          => (/\ \E i \in 1..Len(heap') : heap'[i].nombre = llamada'.nombre
              /\ tareas_completadas' = tareas_completadas)]_vars

\* añadir_tarea has added a task whose name is in tareas_completadas
C11_Testigo ==
    /\ llamada.op = "anadir_tarea"
    /\ resultado = "None"
    /\ llamada.nombre \in tareas_completadas
    /\ \E i \in 1..Len(heap) : heap[i].nombre = llamada.nombre

\* C12: an añadir_tarea whose arguments pass the checks raises nothing; the
\* task it built is in the heap once more than before, every other task as
\* often as before, and the file holds the tasks of the heap
C12_AnadirValida ==
    [][(llamada'.op = "anadir_tarea" /\ llamada'.tarea # <<>>)
       => (/\ resultado' = "None"
           /\ Cuenta(json_dump(heap'), llamada'.tarea[1])
                 = Cuenta(json_dump(heap), llamada'.tarea[1]) + 1
           /\ \A i \in 1..Len(heap) :
                 json_de(heap[i]) # llamada'.tarea[1] =>
                    Cuenta(json_dump(heap'), json_de(heap[i]))
                        = Cuenta(json_dump(heap), json_de(heap[i]))
           /\ archivo'.existe
           /\ MismosElementos(archivo'.contenido, json_dump(heap')))]_vars

\* C13: a GestorTareas started on the same file has in its heap exactly the
\* tasks the heap held when the program stopped, and an empty
\* tareas_completadas; without a file its heap is empty
C13_ReinicioRestaura ==
    [][llamada'.op = "__init__"
       => (/\ MismosElementos(json_dump(heap'), json_dump(heap))
           /\ tareas_completadas' = {}
           /\ ~archivo.existe => heap' = <<>>)]_vars

\* C14: within one process no call takes a name out of tareas_completadas,
\* and a name gets into it only by a completar_tarea called with that name
\* while a task of that name is in the heap
C14_CompletadasSoloCrece ==
    [][llamada'.op # "__init__"
       => (/\ tareas_completadas \subseteq tareas_completadas'
           /\ \A n \in tareas_completadas' \ tareas_completadas :
                 /\ llamada'.op = "completar_tarea"
                 /\ llamada'.nombre = n
                 /\ n \in NombresPendientes)]_vars

\* completar_tarea has put a second name in tareas_completadas
C14_Testigo ==
    /\ llamada.op = "completar_tarea"
    /\ resultado = "completada"
    /\ Cardinality(tareas_completadas) = 2
    /\ heap # <<>>

\* C15: an añadir_tarea or completar_tarea whose guardar_tareas fails raises
\* the error, keeps what it did to the heap and to tareas_completadas, and
\* leaves the file with the content it had
C15_FalloAlGuardar ==
    [][resultado' = "OSError"
       => (/\ llamada'.op = "anadir_tarea"
              => (/\ Cuenta(json_dump(heap'), llamada'.tarea[1])
                       = Cuenta(json_dump(heap), llamada'.tarea[1]) + 1
                  /\ tareas_completadas' = tareas_completadas)
           /\ llamada'.op = "completar_tarea"
              => (/\ \A i \in 1..Len(heap') :
                        heap'[i].nombre # llamada'.nombre
                  /\ llamada'.nombre \in NombresPendientes
                        => llamada'.nombre \in tareas_completadas')
           /\ archivo' = archivo)]_vars

\* every dependency of the task t is in tareas_completadas
Lista(t) == dependencias_completadas(t.dependencias, tareas_completadas)

\* C16: when obtener_tarea_mayor_prioridad reports a task r, r is still in
\* the heap; no task that was in the heap with all its dependencies completed
\* has a smaller (prioridad, fecha) than r; the tasks taken out of the heap
\* are exactly those with a dependency not completed that order before r;
\* every other task is in the heap as often as before
C16_TareaInformada ==
    [][(llamada'.op = "obtener_tarea_mayor_prioridad" /\ resultado' = "tarea")
       => LET r == salida'[1]
          IN  /\ \E i \in 1..Len(heap') : heap'[i] = r
              /\ \A i \in 1..Len(heap) :
                    Lista(heap[i]) => clave_le(r, heap[i])
              /\ \A i \in 1..Len(heap) :
                    Cuenta(json_dump(heap'), json_de(heap[i]))
                      = IF ~Lista(heap[i]) /\ tarea_lt(heap[i], r)
                        THEN 0
                        ELSE Cuenta(json_dump(heap), json_de(heap[i]))]_vars

\* C17: obtener_tarea_mayor_prioridad called while no task of the heap has all
\* its dependencies completed raises nothing, reports no task, and leaves
\* the heap empty and tareas_completadas as it was
C17_NingunaEjecutable ==
    [][(/\ llamada'.op = "obtener_tarea_mayor_prioridad"
        /\ \A i \in 1..Len(heap) : ~Lista(heap[i]))
       => (/\ resultado' = "ninguna"
           /\ salida' = <<>>
           /\ heap' = <<>>
           /\ tareas_completadas' = tareas_completadas)]_vars

\* C18: the heap array is a binary min-heap under the ordering of the tasks
\* by (prioridad, fecha, nombre, dependencias): no task orders before its
\* parent, the parent of position i (from 0) being at (i - 1) \div 2
C18_InvarianteDelHeap ==
    \A i \in 1..(Len(heap) - 1) :
        ~tarea_lt(at(heap, i), at(heap, (i - 1) \div 2))

\* C19: when añadir_tarea raises nothing and when completar_tarea returns,
\* the file holds the array of the heap; obtener_tarea_mayor_prioridad leaves
\* the file as it was, and the file holds every task it took out of the heap
C19_ArchivoTrasGuardar ==
    [][/\ (\/ llamada'.op = "anadir_tarea" /\ resultado' = "None"
           \/ /\ llamada'.op = "completar_tarea"
              /\ resultado' \in {"completada", "no encontrada"})
          => (archivo'.existe /\ archivo'.contenido = json_dump(heap'))
       /\ llamada'.op = "obtener_tarea_mayor_prioridad"
          => (/\ archivo' = archivo
              /\ \A i \in 1..Len(heap) :
                    Cuenta(json_dump(heap'), json_de(heap[i]))
                       < Cuenta(json_dump(heap), json_de(heap[i]))
                    => \E j \in 1..Len(archivo'.contenido) :
                          archivo'.contenido[j] = json_de(heap[i]))]_vars

\* C20: obtener_tarea_mayor_prioridad called right after itself ends as the
\* first call did, with the same task or with none, and changes neither the
\* heap nor tareas_completadas nor the file
C20_ObtenerDosVeces ==
    [][(/\ llamada.op = "obtener_tarea_mayor_prioridad"
        /\ llamada'.op = "obtener_tarea_mayor_prioridad")
       => (/\ resultado' = resultado
           /\ salida' = salida
           /\ heap' = heap
           /\ tareas_completadas' = tareas_completadas
           /\ archivo' = archivo)]_vars

====
